---- MODULE Spec2Model ----
(***************************************************************************)
(* Model of src/python/core/warp/distr.py: the DISTRIBUTIONS table of the  *)
(* Chi^2 warp tests.  The module is executed top to bottom when it is      *)
(* imported; the model follows that execution statement by statement,      *)
(* with a heap of dict and list objects so that references and copies of   *)
(* the settings dictionaries are distinguished.                            *)
(*                                                                         *)
(* Real numbers are kept as fixed-point integers in units of 1e-4.         *)
(***************************************************************************)
EXTENDS Integers, Sequences, FiniteSets, TLC

VARIABLES
    pc,                 \* position of the module-level code
    dicts,              \* heap: dict objects, a dict's id is its index
    lists,              \* heap: list objects held by 'parameters'
    DEFAULT_SETTINGS,   \* module global: id of a dict, 0 while unbound
    DEFAULT_SETTINGS_3, \* module global: id of a dict, 0 while unbound
    DISTRIBUTIONS,      \* module global: [bound, items]
    pending,            \* elements of the list display being evaluated
    frame,              \* call frame of the image-backed builder being run
    fresolver,          \* search path of the thread's file resolver
    distrs,             \* heap: Linear2D0 / Linear2D2 objects
    calls,              \* number of invocations of each builder
    loads,              \* number of Bitmap loads made by each builder
    error,              \* exception that left the module, "none" if none
    errorAt,            \* index of the entry whose construction raised
    used,               \* per entry: distribution objects its functors used
    ncalls,             \* number of sample / density calls made by the tester
    nmut,               \* number of writes made through settings objects
    lastMut             \* the last such write: [entry, kind]

vars == << pc, dicts, lists, DEFAULT_SETTINGS, DEFAULT_SETTINGS_3,
           DISTRIBUTIONS, pending, frame, fresolver, distrs, calls, loads,
           error, errorAt, used, ncalls, nmut, lastMut >>

-----------------------------------------------------------------------------
(* Bounds of the model *)

\* sample / density calls the tester makes on the image-backed entries
MaxCalls == 3

\* writes made through settings objects once the registry is built
MaxMut == 1

-----------------------------------------------------------------------------
(* Numbers *)

\* i + f * 1e-4 as a fixed-point integer
Fx(i, f) == i * 10000 + f

\* np.pi = 3.14159..., truncated to the fixed-point grid
NpPi == Fx(3, 1415)

-----------------------------------------------------------------------------
(* The table: what each tuple of DISTRIBUTIONS is built from *)

\* (label, [min, max, default])
Param(label, lo, hi, default) == << label, << lo, hi, default >> >>

\* the settings expression is a bare reference to a template
Ref(base) ==
    [base |-> base, copy |-> FALSE, scal |-> <<>>, hasParams |-> FALSE,
     params |-> <<>>]

\* the settings expression is dict(base, k=v, ..., parameters=[...])
Dict(base, scal, hasParams, params) ==
    [base |-> base, copy |-> TRUE, scal |-> scal, hasParams |-> hasParams,
     params |-> params]

PlanarDomain(bounds) == [kind |-> "PlanarDomain", bounds |-> bounds]
SphericalDomain == [kind |-> "SphericalDomain", bounds |-> <<>>]
LineDomain(range) == [kind |-> "LineDomain", bounds |-> range]

\* a (sample, density) pair.  `inFile` says that the two functions are
\* defined in distr.py itself; `args` / `pdfArgs` are the names of the
\* positional arguments after the first one of the sample / density
\* function, `variadic` says that *args follows, `d`
\* is the distribution object the functors close over (0: none).
Lambda(args, pdfArgs) ==
    [kind |-> "lambda", inFile |-> TRUE, args |-> args, pdfArgs |-> pdfArgs,
     variadic |-> FALSE, builder |-> "none", d |-> 0]
WarpFn ==
    [kind |-> "warp", inFile |-> FALSE, args |-> <<>>, pdfArgs |-> <<>>,
     variadic |-> FALSE, builder |-> "none", d |-> 0]
Adapter(kind) ==
    [kind |-> kind, inFile |-> FALSE, args |-> <<>>, pdfArgs |-> <<>>,
     variadic |-> FALSE, builder |-> "none", d |-> 0]
Functors(builder) ==
    [kind |-> "functor", inFile |-> TRUE, args |-> <<>>, pdfArgs |-> <<>>,
     variadic |-> TRUE, builder |-> builder, d |-> 0]

Entry(name, domain, functions, settings) ==
    [name |-> name, domain |-> domain, functions |-> functions,
     settings |-> settings]

UnitSquare == << 0, 1, 0, 1 >>

PlainWarpEntries == <<
    Entry("Uniform square", PlanarDomain(UnitSquare), Lambda(<<>>, <<>>),
          Ref("DEFAULT_SETTINGS")),
    Entry("Uniform triangle", PlanarDomain(UnitSquare), WarpFn,
          Dict("DEFAULT_SETTINGS", << <<"res", 100>> >>, FALSE, <<>>)),
    Entry("Tent function", PlanarDomain(<< -1, 1, -1, 1 >>), WarpFn,
          Ref("DEFAULT_SETTINGS")),
    Entry("Uniform disk", PlanarDomain(<<>>), WarpFn,
          Ref("DEFAULT_SETTINGS")),
    Entry("Uniform disk (concentric)", PlanarDomain(<<>>), WarpFn,
          Ref("DEFAULT_SETTINGS")),
    Entry("Uniform sphere", SphericalDomain, WarpFn,
          Ref("DEFAULT_SETTINGS")),
    Entry("Uniform hemisphere", SphericalDomain, WarpFn,
          Ref("DEFAULT_SETTINGS")),
    Entry("Cosine hemisphere", SphericalDomain, WarpFn,
          Ref("DEFAULT_SETTINGS")) >>

UniformConeEntry ==
    Entry("Uniform cone", SphericalDomain, Lambda(<<"angle">>, <<"angle">>),
          Dict("DEFAULT_SETTINGS", <<>>, TRUE,
               << Param("Cutoff angle", Fx(0, 1), Fx(180, 0), Fx(20, 0)) >>))

\* the default 0.6 mistyped as 6
BeckmannEntryDefault6 ==
    Entry("Beckmann distribution", SphericalDomain,
          Lambda(<<"value">>, <<"value">>),
          Dict("DEFAULT_SETTINGS", <<>>, TRUE,
               << Param("Roughness", Fx(0, 0), Fx(1, 0), Fx(6, 0)) >>))

BeckmannEntry ==
    Entry("Beckmann distribution", SphericalDomain, Lambda(<<"value">>, <<"value">>),
          Dict("DEFAULT_SETTINGS", <<>>, TRUE,
               << Param("Roughness", Fx(0, 0), Fx(1, 0), Fx(0, 6000)) >>))

VonMisesFisherEntry ==
    Entry("von Mises-Fisher distribution", SphericalDomain, WarpFn,
          Dict("DEFAULT_SETTINGS", <<>>, TRUE,
               << Param("Concentration", Fx(0, 0), Fx(100, 0), Fx(10, 0)) >>))

\* the sample_dim=3 override left out
RoughFiberEntryNoDim ==
    Entry("Rough fiber distribution", SphericalDomain,
          Lambda(<<"kappa", "incl">>, <<"kappa", "incl">>),
          Dict("DEFAULT_SETTINGS", <<>>, TRUE,
               << Param("Concentration", Fx(0, 0), Fx(500, 0), Fx(10, 0)),
                  Param("Inclination", Fx(0, 0), Fx(90, 0), Fx(20, 0)) >>))

\* the density lambda written without its `incl` argument
RoughFiberEntryShortPdf ==
    Entry("Rough fiber distribution", SphericalDomain,
          Lambda(<<"kappa", "incl">>, <<"kappa">>),
          Dict("DEFAULT_SETTINGS", << <<"sample_dim", 3>> >>, TRUE,
               << Param("Concentration", Fx(0, 0), Fx(500, 0), Fx(10, 0)),
                  Param("Inclination", Fx(0, 0), Fx(90, 0), Fx(20, 0)) >>))

RoughFiberEntry ==
    Entry("Rough fiber distribution", SphericalDomain,
          Lambda(<<"kappa", "incl">>, <<"kappa", "incl">>),
          Dict("DEFAULT_SETTINGS", << <<"sample_dim", 3>> >>, TRUE,
               << Param("Concentration", Fx(0, 0), Fx(500, 0), Fx(10, 0)),
                  Param("Inclination", Fx(0, 0), Fx(90, 0), Fx(20, 0)) >>))

SpectrumEntries == <<
    Entry("Spectrum: test", LineDomain(<< 300, 700 >>),
          Adapter("SpectrumAdapter"),
          Dict("DEFAULT_SETTINGS", << <<"sample_dim", 1>> >>, FALSE, <<>>)),
    Entry("Spectrum: d65", LineDomain(<< 360, 830 >>),
          Adapter("SpectrumAdapter"),
          Dict("DEFAULT_SETTINGS", << <<"sample_dim", 1>> >>, FALSE, <<>>)),
    Entry("Spectrum: blackbody", LineDomain(<< 360, 830 >>),
          Adapter("SpectrumAdapter"),
          Dict("DEFAULT_SETTINGS", << <<"sample_dim", 1>> >>, TRUE,
               << Param("Temperature", Fx(0, 0), Fx(8000, 0), Fx(3000, 0)) >>))
    >>

AngleOfIncidence ==
    << Param("Angle of incidence", Fx(0, 0), Fx(90, 0), Fx(30, 0)) >>

MicrofacetEntries == <<
    Entry("Microfact: Beckmann, all, 0.5", SphericalDomain,
          Adapter("MicrofacetAdapter"), Ref("DEFAULT_SETTINGS")),
    Entry("Microfact: Beckmann, all, 0.1", SphericalDomain,
          Adapter("MicrofacetAdapter"), Ref("DEFAULT_SETTINGS")),
    Entry("Microfact: Beckmann, vis, 0.5", SphericalDomain,
          Adapter("MicrofacetAdapter"),
          Dict("DEFAULT_SETTINGS", <<>>, TRUE, AngleOfIncidence)),
    Entry("Microfact: Beckmann, vis, 0.1", SphericalDomain,
          Adapter("MicrofacetAdapter"),
          Dict("DEFAULT_SETTINGS", <<>>, TRUE, AngleOfIncidence)),
    Entry("Microfact: GGX, all, 0.5", SphericalDomain,
          Adapter("MicrofacetAdapter"), Ref("DEFAULT_SETTINGS")),
    Entry("Microfact: GGX, all, 0.1", SphericalDomain,
          Adapter("MicrofacetAdapter"), Ref("DEFAULT_SETTINGS")),
    Entry("Microfact: GGX, vis, 0.5", SphericalDomain,
          Adapter("MicrofacetAdapter"),
          Dict("DEFAULT_SETTINGS", <<>>, TRUE, AngleOfIncidence)),
    Entry("Microfact: GGX, vis, 0.1", SphericalDomain,
          Adapter("MicrofacetAdapter"),
          Dict("DEFAULT_SETTINGS", <<>>, TRUE, AngleOfIncidence)) >>

\* the "alternative wi" tuple copied from the one above, name not changed
ConductorEntriesSameName == <<
    Entry("Diffuse BSDF", SphericalDomain, Adapter("BSDFAdapter"),
          Ref("DEFAULT_SETTINGS_3")),
    Entry("Rough conductor BSDF - smooth", SphericalDomain,
          Adapter("BSDFAdapter"), Ref("DEFAULT_SETTINGS_3")),
    Entry("Rough conductor BSDF - rough", SphericalDomain,
          Adapter("BSDFAdapter"), Ref("DEFAULT_SETTINGS_3")),
    Entry("Rough conductor BSDF - rough", SphericalDomain,
          Adapter("BSDFAdapter"), Ref("DEFAULT_SETTINGS_3")) >>

ConductorEntries == <<
    Entry("Diffuse BSDF", SphericalDomain, Adapter("BSDFAdapter"),
          Ref("DEFAULT_SETTINGS_3")),
    Entry("Rough conductor BSDF - smooth", SphericalDomain,
          Adapter("BSDFAdapter"), Ref("DEFAULT_SETTINGS_3")),
    Entry("Rough conductor BSDF - rough", SphericalDomain,
          Adapter("BSDFAdapter"), Ref("DEFAULT_SETTINGS_3")),
    Entry("Rough conductor BSDF - rough - alternative wi", SphericalDomain,
          Adapter("BSDFAdapter"), Ref("DEFAULT_SETTINGS_3")) >>

InteractiveParams == <<
    Param("alpha_u", Fx(0, 0), Fx(1, 0), Fx(0, 2000)),
    Param("alpha_v", Fx(0, 0), Fx(1, 0), Fx(0, 2000)),
    Param("Theta", Fx(0, 0), NpPi, Fx(0, 0)),
    Param("Phi", Fx(0, 0), 2 * NpPi, Fx(0, 0)) >>

InteractiveEntries == <<
    Entry("Rough conductor BSDF - interactive", SphericalDomain,
          Adapter("InteractiveMicrofacetBSDFAdapter"),
          Dict("DEFAULT_SETTINGS_3", <<>>, TRUE, InteractiveParams)),
    Entry("Rough conductor BSDF - vis - interactive", SphericalDomain,
          Adapter("InteractiveMicrofacetBSDFAdapter"),
          Dict("DEFAULT_SETTINGS_3", <<>>, TRUE, InteractiveParams)) >>

PlasticEntries == <<
    Entry("Rough plastic BSDF - rough", SphericalDomain,
          Adapter("BSDFAdapter"), Ref("DEFAULT_SETTINGS_3")),
    Entry("Rough plastic BSDF - rough - alternative wi", SphericalDomain,
          Adapter("BSDFAdapter"), Ref("DEFAULT_SETTINGS_3")),
    Entry("Plastic BSDF", SphericalDomain, Adapter("BSDFAdapter"),
          Ref("DEFAULT_SETTINGS_3")),
    Entry("Plastic BSDF - alternative wi", SphericalDomain,
          Adapter("BSDFAdapter"), Ref("DEFAULT_SETTINGS_3")) >>

\* the list display of lines 51-262
Literal ==
    PlainWarpEntries
    \o << UniformConeEntry, BeckmannEntry, VonMisesFisherEntry,
          RoughFiberEntry >>
    \o SpectrumEntries \o MicrofacetEntries \o ConductorEntries
    \o InteractiveEntries \o PlasticEntries

HierarchicalSmallEntry ==
    Entry("Hierarchical warp (small)", PlanarDomain(UnitSquare),
          Functors("LinearWarp2D0Test"), Ref("DEFAULT_SETTINGS"))

HierarchicalBigEntry ==
    Entry("Hierarchical warp (4D, big)", PlanarDomain(UnitSquare),
          Functors("LinearWarp2D2Test"),
          Dict("DEFAULT_SETTINGS", <<>>, TRUE,
               << Param("param0", Fx(0, 0), Fx(1, 0), Fx(0, 5000)),
                  Param("param1", Fx(0, 0), Fx(1, 0), Fx(0, 50)) >>))

\* the list display of lines 308-321
Appended == << HierarchicalSmallEntry, HierarchicalBigEntry >>

-----------------------------------------------------------------------------
(* Heap operations *)

Fields == {"sample_dim", "ires", "res", "parameters"}

\* {'sample_dim': sd, 'ires': 10, 'res': 101, 'parameters': <list plist>}
Template(sd, plist) ==
    [sample_dim |-> sd, ires |-> 10, res |-> 101, parameters |-> plist]

\* a dict with the keyword arguments kw = <<key, value>>, ... written over it
Update(rec, kw) ==
    [k \in Fields |->
        IF \E n \in 1..Len(kw) : kw[n][1] = k
        THEN kw[CHOOSE n \in 1..Len(kw) : kw[n][1] = k][2]
        ELSE rec[k]]

\* base.update(kw) in place of a copy: the base object itself is returned
dict_update_in_place(ds, base, kw) ==
    [dicts |-> [ds EXCEPT ![base] = Update(ds[base], kw)], id |-> base]

\* dict(base, **kw): a new dict object, a shallow copy of base with kw
\* written over it; base itself is left alone
dict(ds, base, kw) ==
    [dicts |-> Append(ds, Update(ds[base], kw)), id |-> Len(ds) + 1]

BaseId(name) ==
    IF name = "DEFAULT_SETTINGS" THEN DEFAULT_SETTINGS ELSE DEFAULT_SETTINGS_3

\* the value of a settings expression: a bare template name evaluates to
\* the template object itself; dict(...) first evaluates its keyword
\* arguments (a parameters=[...] display makes a new list object)
EvalSettings(e) ==
    IF ~e.copy
    THEN [dicts |-> dicts, lists |-> lists, id |-> BaseId(e.base)]
    ELSE LET ls == IF e.hasParams THEN Append(lists, e.params) ELSE lists
             kw == IF e.hasParams
                   THEN Append(e.scal, << "parameters", Len(ls) >>)
                   ELSE e.scal
             r  == dict(dicts, BaseId(e.base), kw)
         IN  [dicts |-> r.dicts, lists |-> ls, id |-> r.id]

\* the tuple (name, domain, (sample, density), settings) as an object
Built(t, settingsId, d) ==
    [name |-> t.name, domain |-> t.domain,
     functions |-> [t.functions EXCEPT !.d = d], settings |-> settingsId]

\* what a reader of entry e's settings sees
SettingsView(e) ==
    [sample_dim |-> dicts[e.settings].sample_dim,
     ires |-> dicts[e.settings].ires,
     res |-> dicts[e.settings].res,
     parameters |-> lists[dicts[e.settings].parameters]]

TemplateView(id) ==
    [sample_dim |-> dicts[id].sample_dim, ires |-> dicts[id].ires,
     res |-> dicts[id].res, parameters |-> lists[dicts[id].parameters]]

-----------------------------------------------------------------------------
(* Collaborators outside distr.py *)

\* adapters whose constructor instantiates a model from a configuration
\* snippet, and so raises when the snippet cannot be resolved
RaisesOnBadSnippet(fns) ==
    fns.kind \in {"SpectrumAdapter", "BSDFAdapter",
                  "InteractiveMicrofacetBSDFAdapter"}

BasePath == << "cwd" >>

\* fresolver_append_path, before the wrapped function runs
fresolver_append_path_enter(path) == Append(path, "project_root")

\* the resolver is restored after a normal return only
fresolver_append_path_exit_no_finally(path, old, raised) ==
    IF raised THEN path ELSE old

\* fresolver_append_path, after the wrapped function returned or raised
fresolver_append_path_exit(path, old, raised) == old

-----------------------------------------------------------------------------
(* Images and arrays *)

\* shapes (height, width, channels) np.array(Bitmap(...)) may have
ImageShapes ==
    { << 512, 512, 1 >>, << 256, 256, 1 >>, << 1, 512, 1 >>, << 1, 1, 1 >>,
      << 512, 512, 3 >> }

Resolution(shape) == << shape[1], shape[2] >>

\* ndarray.squeeze(): the axes of length one are removed
Squeeze(shape) == SelectSeq(shape, LAMBDA n : n # 1)

\* tensor[i, j, :, :], of the tensor np.full((2, 2, 512, 512), ...)
TensorSlice == << 512, 512 >>

\* numpy's rule for `target[...] = value`: value is broadcast to the shape
\* of the target, axes aligned from the right
Broadcastable(src, dst) ==
    /\ Len(src) <= Len(dst)
    /\ \A k \in 1..Len(src) :
          LET s == src[Len(src) - k + 1]
              t == dst[Len(dst) - k + 1]
          IN  s = t \/ s = 1

Builders == {"LinearWarp2D0Test", "LinearWarp2D2Test"}

\* number of Bitmap(fr.resolve(...)) loads in the body of a builder
NImages(b) == IF b = "LinearWarp2D0Test" THEN 1 ELSE 4

-----------------------------------------------------------------------------
(* State *)

NoFrame ==
    [fn |-> "none", pc |-> "none", fres_old |-> <<>>, imgs |-> <<>>, d |-> 0]

Init ==
    /\ pc = "l47"
    /\ dicts = <<>>
    /\ lists = <<>>
    /\ DEFAULT_SETTINGS = 0
    /\ DEFAULT_SETTINGS_3 = 0
    /\ DISTRIBUTIONS = [bound |-> FALSE, items |-> <<>>]
    /\ pending = <<>>
    /\ frame = NoFrame
    /\ fresolver = BasePath
    /\ distrs = <<>>
    /\ calls = [b \in Builders |-> 0]
    /\ loads = [b \in Builders |-> 0]
    /\ error = "none"
    /\ errorAt = 0
    /\ used = [b \in Builders |-> {}]
    /\ ncalls = 0
    /\ nmut = 0
    /\ lastMut = [entry |-> 0, kind |-> "none"]

heapVars == << dicts, lists >>
globalVars == << DEFAULT_SETTINGS, DEFAULT_SETTINGS_3 >>
builderVars == << frame, fresolver, distrs, calls, loads >>
errorVars == << error, errorAt >>
testerVars == << used, ncalls, nmut, lastMut >>

-----------------------------------------------------------------------------
(* Module-level statements, lines 47-262 *)

\* line 47
DefineDefaultSettings ==
    /\ pc = "l47"
    /\ lists' = Append(lists, <<>>)
    /\ dicts' = Append(dicts, Template(2, Len(lists) + 1))
    /\ DEFAULT_SETTINGS' = Len(dicts) + 1
    /\ pc' = "l48"
    /\ UNCHANGED << DEFAULT_SETTINGS_3, DISTRIBUTIONS, pending >>
    /\ UNCHANGED << builderVars, errorVars, testerVars >>

\* line 48
DefineDefaultSettings3 ==
    /\ pc = "l48"
    /\ lists' = Append(lists, <<>>)
    /\ dicts' = Append(dicts, Template(3, Len(lists) + 1))
    /\ DEFAULT_SETTINGS_3' = Len(dicts) + 1
    /\ pc' = "l51"
    /\ UNCHANGED << DEFAULT_SETTINGS, DISTRIBUTIONS, pending >>
    /\ UNCHANGED << builderVars, errorVars, testerVars >>

\* the next tuple of the list display of line 51 is evaluated
EvalLiteralEntry ==
    /\ pc = "l51"
    /\ Len(pending) < Len(Literal)
    /\ LET t == Literal[Len(pending) + 1]
           r == EvalSettings(t.settings)
       IN  /\ dicts' = r.dicts
           /\ lists' = r.lists
           /\ pending' = Append(pending, Built(t, r.id, 0))
    /\ UNCHANGED << pc, globalVars, DISTRIBUTIONS >>
    /\ UNCHANGED << builderVars, errorVars, testerVars >>

\* the adapter constructor of the next tuple raises: the exception leaves
\* the list display and the module; nothing is bound
RaiseInAdapter ==
    /\ pc = "l51"
    /\ Len(pending) < Len(Literal)
    /\ RaisesOnBadSnippet(Literal[Len(pending) + 1].functions)
    /\ pc' = "failed"
    /\ error' = "config"
    /\ errorAt' = Len(pending) + 1
    /\ pending' = <<>>
    /\ UNCHANGED << heapVars, globalVars, DISTRIBUTIONS >>
    /\ UNCHANGED << builderVars, testerVars >>

\* lines 51-262: the finished list is bound to DISTRIBUTIONS
BindDistributions ==
    /\ pc = "l51"
    /\ Len(pending) = Len(Literal)
    /\ DISTRIBUTIONS' = [bound |-> TRUE, items |-> pending]
    /\ pending' = <<>>
    /\ pc' = "l264"
    /\ UNCHANGED << heapVars, globalVars >>
    /\ UNCHANGED << builderVars, errorVars, testerVars >>

\* lines 264-305: the two def statements; the decorator wraps each builder
DefineBuilders ==
    /\ pc = "l264"
    /\ pc' = "l308"
    /\ UNCHANGED << heapVars, globalVars, DISTRIBUTIONS, pending >>
    /\ UNCHANGED << builderVars, errorVars, testerVars >>

-----------------------------------------------------------------------------
(* The image-backed builders, lines 264-305, called from line 311 / 315 *)

\* the tuple of the list display of line 308 that is evaluated next
NextAppended == Appended[Len(pending) + 1]

\* index the entry under construction would have in DISTRIBUTIONS
UnderConstruction == Len(DISTRIBUTIONS.items) + Len(pending) + 1

\* the wrapper made by the decorator is entered: it saves the file resolver
\* and installs the augmented one, then calls the builder
EnterBuilder ==
    /\ pc = "l308"
    /\ frame.fn = "none"
    /\ Len(pending) < Len(Appended)
    /\ LET b == NextAppended.functions.builder
       IN  /\ frame' = [fn |-> b, pc |-> "load", fres_old |-> fresolver,
                        imgs |-> <<>>, d |-> 0]
           /\ calls' = [calls EXCEPT ![b] = @ + 1]
    /\ fresolver' = fresolver_append_path_enter(fresolver)
    /\ UNCHANGED << pc, heapVars, globalVars, DISTRIBUTIONS, pending >>
    /\ UNCHANGED << distrs, loads, errorVars, testerVars >>

\* np.array(Bitmap(fr.resolve(...))) succeeds with an array of shape `shape`
LoadImage(shape) ==
    /\ frame.pc = "load"
    /\ Len(frame.imgs) < NImages(frame.fn)
    /\ frame' = [frame EXCEPT !.imgs = Append(@, shape)]
    /\ loads' = [loads EXCEPT ![frame.fn] = @ + 1]
    /\ UNCHANGED << pc, heapVars, globalVars, DISTRIBUTIONS, pending >>
    /\ UNCHANGED << fresolver, distrs, calls, errorVars, testerVars >>

\* an exception leaves the builder, its wrapper, the list display of line
\* 308 and the module
Unwind(kind) ==
    /\ fresolver' = fresolver_append_path_exit(fresolver, frame.fres_old, TRUE)
    /\ frame' = NoFrame
    /\ pc' = "failed"
    /\ error' = kind
    /\ errorAt' = UnderConstruction
    /\ pending' = <<>>
    /\ UNCHANGED << heapVars, globalVars, DISTRIBUTIONS >>
    /\ UNCHANGED << distrs, calls, loads, testerVars >>

\* the image cannot be resolved or decoded
RaiseInLoad ==
    /\ frame.pc = "load"
    /\ Len(frame.imgs) < NImages(frame.fn)
    /\ Unwind("image")

\* line 270
BuildLinear2D0 ==
    /\ frame.fn = "LinearWarp2D0Test"
    /\ frame.pc = "load"
    /\ Len(frame.imgs) = NImages(frame.fn)
    /\ distrs' = Append(distrs, [kind |-> "Linear2D0",
                                 data |-> << Squeeze(frame.imgs[1]) >>])
    /\ frame' = [frame EXCEPT !.pc = "return", !.d = Len(distrs) + 1]
    /\ UNCHANGED << pc, heapVars, globalVars, DISTRIBUTIONS, pending >>
    /\ UNCHANGED << fresolver, calls, loads, errorVars, testerVars >>

\* lines 292-295 succeed exactly when every squeezed image can be broadcast
\* to a slice of the tensor
TensorAssignable(imgs) ==
    \A k \in 1..Len(imgs) : Broadcastable(Squeeze(imgs[k]), TensorSlice)

\* lines 291-297
BuildLinear2D2 ==
    /\ frame.fn = "LinearWarp2D2Test"
    /\ frame.pc = "load"
    /\ Len(frame.imgs) = NImages(frame.fn)
    /\ TensorAssignable(frame.imgs)
    /\ distrs' = Append(distrs, [kind |-> "Linear2D2", data |-> frame.imgs])
    /\ frame' = [frame EXCEPT !.pc = "return", !.d = Len(distrs) + 1]
    /\ UNCHANGED << pc, heapVars, globalVars, DISTRIBUTIONS, pending >>
    /\ UNCHANGED << fresolver, calls, loads, errorVars, testerVars >>

\* one of lines 292-295 raises ValueError
RaiseInTensor ==
    /\ frame.fn = "LinearWarp2D2Test"
    /\ frame.pc = "load"
    /\ Len(frame.imgs) = NImages(frame.fn)
    /\ ~TensorAssignable(frame.imgs)
    /\ Unwind("shape")

\* each tuple is added to DISTRIBUTIONS as soon as its builder returns
ReturnFromBuilderAndRegister ==
    /\ frame.pc = "return"
    /\ fresolver' = fresolver_append_path_exit(fresolver, frame.fres_old, FALSE)
    /\ LET r == EvalSettings(NextAppended.settings)
           e == Built(NextAppended, r.id, frame.d)
       IN  /\ dicts' = r.dicts
           /\ lists' = r.lists
           /\ pending' = Append(pending, e)
           /\ DISTRIBUTIONS' = [DISTRIBUTIONS EXCEPT !.items = Append(@, e)]
    /\ frame' = NoFrame
    /\ UNCHANGED << pc, globalVars >>
    /\ UNCHANGED << distrs, calls, loads, errorVars, testerVars >>

\* the builder returns its two functors, the wrapper restores the file
\* resolver, and the rest of the tuple (its settings) is evaluated
ReturnFromBuilder ==
    /\ frame.pc = "return"
    /\ fresolver' = fresolver_append_path_exit(fresolver, frame.fres_old, FALSE)
    /\ LET r == EvalSettings(NextAppended.settings)
       IN  /\ dicts' = r.dicts
           /\ lists' = r.lists
           /\ pending' = Append(pending, Built(NextAppended, r.id, frame.d))
    /\ frame' = NoFrame
    /\ UNCHANGED << pc, globalVars, DISTRIBUTIONS >>
    /\ UNCHANGED << distrs, calls, loads, errorVars, testerVars >>

\* line 308: DISTRIBUTIONS += [...], once the whole display is evaluated
ExtendDistributions ==
    /\ pc = "l308"
    /\ frame.fn = "none"
    /\ Len(pending) = Len(Appended)
    /\ DISTRIBUTIONS' = [DISTRIBUTIONS EXCEPT !.items = @ \o pending]
    /\ pending' = <<>>
    /\ pc' = "done"
    /\ UNCHANGED << heapVars, globalVars >>
    /\ UNCHANGED << builderVars, errorVars, testerVars >>

-----------------------------------------------------------------------------
(* The consumers of the table, once the module is imported *)

Indices == 1..Len(DISTRIBUTIONS.items)

\* the image is loaded and the distribution rebuilt on every call
CallFunctorRebuilding(i) ==
    /\ pc = "done"
    /\ ncalls < MaxCalls
    /\ DISTRIBUTIONS.items[i].functions.kind = "functor"
    /\ LET b == DISTRIBUTIONS.items[i].functions.builder
       IN  /\ loads' = [loads EXCEPT ![b] = @ + NImages(b)]
           /\ distrs' = Append(distrs, distrs[DISTRIBUTIONS.items[i].functions.d])
           /\ used' = [used EXCEPT ![b] = @ \cup {Len(distrs) + 1}]
    /\ ncalls' = ncalls + 1
    /\ UNCHANGED << pc, heapVars, globalVars, DISTRIBUTIONS, pending >>
    /\ UNCHANGED << frame, fresolver, calls, errorVars, nmut, lastMut >>

\* sample_functor / pdf_functor of entry i is called: it evaluates
\* d.sample(...) / d.eval(...) on the object its closure holds
CallFunctor(i) ==
    /\ pc = "done"
    /\ ncalls < MaxCalls
    /\ DISTRIBUTIONS.items[i].functions.kind = "functor"
    /\ used' = [used EXCEPT ![DISTRIBUTIONS.items[i].functions.builder] =
                    @ \cup {DISTRIBUTIONS.items[i].functions.d}]
    /\ ncalls' = ncalls + 1
    /\ UNCHANGED << pc, heapVars, globalVars, DISTRIBUTIONS, pending >>
    /\ UNCHANGED << builderVars, errorVars, nmut, lastMut >>

\* settings[f] = v through entry i
SetField(i, f, v) ==
    /\ pc = "done"
    /\ nmut < MaxMut
    /\ dicts' = [dicts EXCEPT ![DISTRIBUTIONS.items[i].settings][f] = v]
    /\ nmut' = nmut + 1
    /\ lastMut' = [entry |-> i, kind |-> "assign"]
    /\ UNCHANGED << pc, lists, globalVars, DISTRIBUTIONS, pending >>
    /\ UNCHANGED << builderVars, errorVars, used, ncalls >>

\* settings['parameters'].append(p) through entry i
AppendParameter(i, p) ==
    /\ pc = "done"
    /\ nmut < MaxMut
    /\ lists' = [lists EXCEPT ![dicts[DISTRIBUTIONS.items[i].settings].parameters]
                    = Append(@, p)]
    /\ nmut' = nmut + 1
    /\ lastMut' = [entry |-> i, kind |-> "append"]
    /\ UNCHANGED << pc, dicts, globalVars, DISTRIBUTIONS, pending >>
    /\ UNCHANGED << builderVars, errorVars, used, ncalls >>

-----------------------------------------------------------------------------
(* Specifications *)

\* import of the module, with every resource error, then the tester's calls
Next ==
    \/ DefineDefaultSettings
    \/ DefineDefaultSettings3
    \/ EvalLiteralEntry
    \/ RaiseInAdapter
    \/ BindDistributions
    \/ DefineBuilders
    \/ EnterBuilder
    \/ \E shape \in ImageShapes : LoadImage(shape)
    \/ RaiseInLoad
    \/ BuildLinear2D0
    \/ BuildLinear2D2
    \/ RaiseInTensor
    \/ ReturnFromBuilder
    \/ ExtendDistributions
    \/ \E i \in Indices : CallFunctor(i)

Spec == Init /\ [][Next]_vars

\* import of the module with all resources present and well formed, then
\* writes through the settings objects of the entries
NextWrite ==
    \/ DefineDefaultSettings
    \/ DefineDefaultSettings3
    \/ EvalLiteralEntry
    \/ BindDistributions
    \/ DefineBuilders
    \/ EnterBuilder
    \/ LoadImage(<< 512, 512, 1 >>)
    \/ BuildLinear2D0
    \/ BuildLinear2D2
    \/ ReturnFromBuilder
    \/ ExtendDistributions
    \/ \E i \in Indices : \E f \in {"sample_dim", "ires", "res"} :
          SetField(i, f, 7)
    \/ \E i \in Indices : AppendParameter(i, Param("extra", 0, 1, 0))

SpecWrite == Init /\ [][NextWrite]_vars

-----------------------------------------------------------------------------
(* Properties *)

\* the table, in the order of the finished registry
AllEntries == Literal \o Appended

Registered(name) ==
    /\ DISTRIBUTIONS.bound
    /\ \E i \in Indices : DISTRIBUTIONS.items[i].name = name

ViewOf(i) == SettingsView(DISTRIBUTIONS.items[i])

(* C1: in the fully built registry no two entries at different positions  *)
(* carry the same name.                                                    *)
C1_NamesDistinct ==
    pc = "done" =>
        \A i, j \in Indices :
            i # j => DISTRIBUTIONS.items[i].name # DISTRIBUTIONS.items[j].name

C1_Witness ==
    /\ pc = "done"
    /\ Len(DISTRIBUTIONS.items) = Len(Literal) + Len(Appended)
    /\ Registered("Hierarchical warp (small)")
    /\ Registered("Hierarchical warp (4D, big)")

(* C2: every parameter (label, [min, max, default]) of every entry of the *)
(* registry has min <= default <= max, and min <= max.                     *)
C2_DefaultsInRange ==
    pc = "done" =>
        \A i \in Indices :
            \A k \in 1..Len(ViewOf(i).parameters) :
                LET range == ViewOf(i).parameters[k][2]
                IN  /\ range[1] <= range[3]
                    /\ range[3] <= range[2]
                    /\ range[1] <= range[2]

C2_Witness ==
    /\ pc = "done"
    /\ \E i \in Indices :
          /\ Len(ViewOf(i).parameters) = 4
          /\ ViewOf(i).parameters[3][2] = << 0, NpPi, 0 >>
    /\ \E i \in Indices :
          /\ Len(ViewOf(i).parameters) = 1
          /\ ViewOf(i).parameters[1][2] = << 1, Fx(180, 0), Fx(20, 0) >>

\* sample_dim the rule of the claim prescribes for an entry
PrescribedDim(e) ==
    CASE e.domain.kind = "LineDomain" -> 1
      [] e.domain.kind = "PlanarDomain" -> 2
      [] e.domain.kind = "SphericalDomain" ->
            IF e.functions.kind \in {"BSDFAdapter",
                                     "InteractiveMicrofacetBSDFAdapter"}
            THEN 3 ELSE 2

(* C3, as claimed: every LineDomain entry has sample_dim 1, every         *)
(* PlanarDomain entry 2, every SphericalDomain entry backed by a BSDF     *)
(* adapter 3, and every other SphericalDomain entry 2.                    *)
C3_Original ==
    pc = "done" =>
        \A i \in Indices :
            ViewOf(i).sample_dim = PrescribedDim(DISTRIBUTIONS.items[i])

(* C3, amended: as above, except that the SphericalDomain entry 'Rough    *)
(* fiber distribution', whose functions are plain lambdas, has            *)
(* sample_dim 3.                                                          *)
C3_Amended ==
    pc = "done" =>
        \A i \in Indices :
            ViewOf(i).sample_dim =
                IF DISTRIBUTIONS.items[i].name = "Rough fiber distribution"
                THEN 3
                ELSE PrescribedDim(DISTRIBUTIONS.items[i])

C3_Witness ==
    /\ pc = "done"
    /\ \E i \in Indices :
          /\ DISTRIBUTIONS.items[i].name = "Rough fiber distribution"
          /\ DISTRIBUTIONS.items[i].domain.kind = "SphericalDomain"
          /\ DISTRIBUTIONS.items[i].functions.kind = "lambda"
          /\ ViewOf(i).sample_dim = 3

\* the parameter an argument of the lambdas of lines 96-131 stands for: the
\* cone's cutoff angle, the interpolated roughness, the fiber's
\* concentration kappa and the inclination of its incident direction
ArgLabel(arg) ==
    CASE arg = "angle" -> "Cutoff angle"
      [] arg = "value" -> "Roughness"
      [] arg = "kappa" -> "Concentration"
      [] arg = "incl" -> "Inclination"

\* a function with the extra positional arguments `args` (and *args when
\* variadic) can be called with the n parameter values, in their order
Accepts(args, variadic, params) ==
    /\ IF variadic THEN Len(args) <= Len(params) ELSE Len(args) = Len(params)
    /\ \A k \in 1..Len(args) :
          k <= Len(params) => ArgLabel(args[k]) = params[k][1]

(* C4: for every entry whose functions are defined in the file, the       *)
(* number of parameters is the number of extra positional arguments both  *)
(* functions accept, in the same order; with no parameters neither        *)
(* function requires an extra argument.                                   *)
C4_ParametersMatchArguments ==
    pc = "done" =>
        \A i \in Indices :
            LET f == DISTRIBUTIONS.items[i].functions
                params == ViewOf(i).parameters
            IN  f.inFile =>
                    /\ Accepts(f.args, f.variadic, params)
                    /\ Accepts(f.pdfArgs, f.variadic, params)
                    /\ Len(params) = 0 =>
                          Len(f.args) = 0 /\ Len(f.pdfArgs) = 0

C4_Witness ==
    /\ pc = "done"
    /\ \E i \in Indices :
          /\ DISTRIBUTIONS.items[i].functions.kind = "lambda"
          /\ Len(DISTRIBUTIONS.items[i].functions.args) = 2
          /\ Len(ViewOf(i).parameters) = 2
    /\ \E i \in Indices :
          /\ DISTRIBUTIONS.items[i].functions.kind = "functor"
          /\ Len(ViewOf(i).parameters) = 2
    /\ \E i \in Indices :
          /\ DISTRIBUTIONS.items[i].functions.kind = "functor"
          /\ Len(ViewOf(i).parameters) = 0

(* C5: whenever no builder is running - before it is called, after it     *)
(* returned, after it raised - the search path is the one from before the *)
(* call.                                                                  *)
C5_SearchPathRestored ==
    frame.fn = "none" => fresolver = BasePath

C5_Witness ==
    /\ error = "image"
    /\ calls["LinearWarp2D2Test"] = 1
    /\ loads["LinearWarp2D2Test"] = 2
    /\ frame.fn = "none"
    /\ fresolver = BasePath

(* C6, as claimed: after a resource error in the construction of one      *)
(* entry, every other entry is registered in DISTRIBUTIONS.               *)
C6_Original ==
    error \in {"config", "image"} =>
        \A k \in 1..Len(AllEntries) :
            k # errorAt => Registered(AllEntries[k].name)

(* C6, amended: a resource error is not isolated.  An adapter error       *)
(* inside the list display of line 51 leaves DISTRIBUTIONS unbound; an    *)
(* image error in either builder leaves DISTRIBUTIONS with exactly the    *)
(* entries of the first list display and neither hierarchical-warp entry; *)
(* in both cases the import has failed.                                   *)
C6_Amended ==
    /\ error = "config" =>
          /\ pc = "failed"
          /\ ~DISTRIBUTIONS.bound
          /\ \A k \in 1..Len(AllEntries) : ~Registered(AllEntries[k].name)
    /\ error = "image" =>
          /\ pc = "failed"
          /\ DISTRIBUTIONS.bound
          /\ Len(DISTRIBUTIONS.items) = Len(Literal)
          /\ \A k \in 1..Len(Literal) :
                DISTRIBUTIONS.items[k].name = Literal[k].name
          /\ \A k \in 1..Len(Appended) : ~Registered(Appended[k].name)

C6_Witness ==
    /\ error = "image"
    /\ errorAt = Len(AllEntries)
    /\ calls["LinearWarp2D0Test"] = 1
    /\ Len(distrs) = 1
    /\ ~Registered("Hierarchical warp (small)")

\* the fields the settings expression of a tuple writes over its template
Overridden(t) ==
    { t.settings.scal[n][1] : n \in 1..Len(t.settings.scal) }
    \cup (IF t.settings.hasParams THEN {"parameters"} ELSE {})

\* the entries built so far, registered or still in a list display
BuiltSoFar == DISTRIBUTIONS.items \o pending

(* C7: after every construction step DEFAULT_SETTINGS is                  *)
(* {sample_dim: 2, ires: 10, res: 101, parameters: []} and                *)
(* DEFAULT_SETTINGS_3 is {sample_dim: 3, ires: 10, res: 101,              *)
(* parameters: []}, and the settings of every entry built so far agree    *)
(* with its template in every field the entry does not override.          *)
C7_TemplatesKept ==
    /\ DEFAULT_SETTINGS # 0 =>
          TemplateView(DEFAULT_SETTINGS) =
              [sample_dim |-> 2, ires |-> 10, res |-> 101, parameters |-> <<>>]
    /\ DEFAULT_SETTINGS_3 # 0 =>
          TemplateView(DEFAULT_SETTINGS_3) =
              [sample_dim |-> 3, ires |-> 10, res |-> 101, parameters |-> <<>>]
    /\ \A i \in 1..Len(BuiltSoFar) :
          \A f \in Fields \ Overridden(AllEntries[i]) :
              SettingsView(BuiltSoFar[i])[f] =
                  TemplateView(BaseId(AllEntries[i].settings.base))[f]

C7_Witness ==
    /\ pc = "done"
    /\ \E i \in Indices :
          /\ ViewOf(i).res = 100
          /\ ViewOf(i).sample_dim = 2
          /\ Overridden(AllEntries[i]) = {"res"}
    /\ TemplateView(DEFAULT_SETTINGS).res = 101

\* a step that writes through the settings of an entry
IsWrite == nmut' = nmut + 1

TemplatesView ==
    << TemplateView(DEFAULT_SETTINGS), TemplateView(DEFAULT_SETTINGS_3) >>

SharesTarget(kind, s, t) ==
    /\ s.base = t.base
    /\ IF kind = "assign"
       THEN ~s.copy /\ ~t.copy
       ELSE ~s.hasParams /\ ~t.hasParams

C9_BuiltOnce ==
    /\ \A b \in Builders : calls[b] <= 1 /\ loads[b] <= NImages(b)
    /\ Len(distrs) <= calls["LinearWarp2D0Test"] + calls["LinearWarp2D2Test"]
    /\ \A i \in Indices :
          LET f == DISTRIBUTIONS.items[i].functions
          IN  f.kind = "functor" =>
                  /\ calls[f.builder] = 1
                  /\ loads[f.builder] = NImages(f.builder)
                  /\ frame.fn = "none"
                  /\ f.d \in 1..Len(distrs)
                  /\ used[f.builder] \subseteq {f.d}

C9_Witness ==
    /\ pc = "done"
    /\ ncalls >= 2
    /\ used["LinearWarp2D0Test"] = {1}
    /\ used["LinearWarp2D2Test"] = {2}
    /\ loads["LinearWarp2D0Test"] = 1
    /\ loads["LinearWarp2D2Test"] = 4

SameResolution(imgs) ==
    \A k, l \in 1..Len(imgs) : Resolution(imgs[k]) = Resolution(imgs[l])

(* C10: the 'Hierarchical warp (4D, big)' entry is never registered with  *)
(* a tensor built from four images that do not all have the same          *)
(* resolution: construction fails instead.                                *)
C10_UnequalImagesRejected ==
    \A i \in Indices :
        DISTRIBUTIONS.items[i].functions.builder = "LinearWarp2D2Test" =>
            SameResolution(distrs[DISTRIBUTIONS.items[i].functions.d].data)

====
